---- MODULE Spec2Model ----
(***************************************************************************)
(* A model of domain-alive: the registerable-domain (apex) checker, the    *)
(* FQDN checker that wraps it, the per-key async mutex and the cache       *)
(* facade.  The checkers that createDomainAliveChecker returned serve a    *)
(* bounded number of calls, which interleave at their suspension points.   *)
(***************************************************************************)
EXTENDS Integers, Sequences, FiniteSets, TLC

\* ------------------------------------------------------------------ bounds

\* how many checker calls one behaviour issues
MaxCalls == 2
\* the largest dns.confirmations the options are drawn from
MaxConfirmations == 2
\* dns.retryCount of the instance (the retries asyncRetry makes per attempt)
DnsRetries == 1
\* whois.retryCount of the instance
WhoisRetries == 1

\* ------------------------------------------------------------ input domain

\* dns.dnsServers of the instance
DnsServers == <<"udp://9.9.9.9", "https://1.1.1.1">>

\* the lists a caller can pass as dns.dnsServers: the one above, and one
\* whose second server has a scheme getDnsClients does not know
ServerLists == {DnsServers, <<"udp://9.9.9.9", "quic://1.1.1.1">>}

\* dns.slice(0, dns.indexOf('://')), '' without a '://'
Protocol(dns) ==
  CASE dns = "udp://9.9.9.9" -> "udp"
    [] dns = "https://1.1.1.1" -> "https"
    [] dns = "quic://1.1.1.1" -> "quic"
    [] OTHER -> ""

\* the cases of the switch that make a client
SupportedProtocols == {"https", "tls", "tcp", "", "udp"}

\* the TypeError of the default case of the switch
UnsupportedProtocol == [error |-> "TypeError: Unsupported DNS protocol"]

\* getDnsClients(servers): one client per server, or the TypeError of the
\* first server whose protocol is not supported
getDnsClients(servers) ==
  IF \A i \in 1..Len(servers) : Protocol(servers[i]) \in SupportedProtocols
    THEN [kind |-> "return", clients |-> Len(servers)]
    ELSE [kind |-> "throw", error |-> UnsupportedProtocol]

\* the strings the callers pass
Inputs == {"127.0.0.1", "a.com", "ü.a.com", "xn--tda.a.com"}

Null == "null"

\* punycode's toASCII: a label holding a non-ASCII character becomes its
\* A-label, every other label is kept as it is
toASCII(d) == IF d = "ü.a.com" THEN "xn--tda.a.com" ELSE d

Keys == {toASCII(d) : d \in Inputs}

\* tldts' getDomain under getRegisterableDomainTldtsOption: null for an IP
getDomain(k) ==
  CASE k = "127.0.0.1" -> Null
    [] k = "a.com" -> "a.com"
    [] k = "xn--tda.a.com" -> "a.com"
    [] OTHER -> Null

\* --------------------------------------------------------------- results

sharedNullResponse == [registerableDomain |-> Null, alive |-> FALSE]

sharedNullishResult ==
  [registerableDomain |-> Null, registerableDomainAlive |-> FALSE, alive |-> FALSE]

\* what get(key) of a cache resolves to for a key it does not hold
Undefined == [undefined |-> TRUE]

\* a key the cache does not hold
NoEntry == [absent |-> TRUE]

\* the error a rejected promise carries
DnsError == [error |-> "dns"]
TypeErrorOfUndefined == [error |-> "TypeError"]

\* ------------------------------------------------------------------ WHOIS

\* A WHOIS response as whoiser returns it with raw: true: a node holds an
\* optional __raw (absent, not a string, or its lines, each one either free
\* of dead phrases or holding one), some scalar or array fields, and nested
\* nodes (the referred servers' responses).  raw is <<"absent">> without the
\* key, <<"other">> for a __raw that is not a string, <<"string", lines...>>
\* otherwise.
CleanLine == "Domain Name: A.COM"
DeadLine == "No match for A.COM"

EmptyObject == [raw |-> <<"absent">>, fields |-> 0, kids |-> <<>>]

WhoisObjects ==
  { EmptyObject,
    [raw |-> <<"string", CleanLine>>, fields |-> 1, kids |-> <<>>],
    [raw |-> <<"string", CleanLine, DeadLine>>, fields |-> 1, kids |-> <<>>],
    [raw |-> <<"absent">>, fields |-> 0,
     kids |-> << [raw |-> <<"string", DeadLine>>, fields |-> 1, kids |-> <<>>] >>],
    [raw |-> <<"string", CleanLine>>, fields |-> 0, kids |-> <<EmptyObject>>],
    [raw |-> <<"other">>, fields |-> 0, kids |-> <<>>],
    [raw |-> <<"string", CleanLine>>, fields |-> 1,
     kids |-> << [raw |-> <<"string", CleanLine>>, fields |-> 1, kids |-> <<>>],
                 [raw |-> <<"string", DeadLine>>, fields |-> 1, kids |-> <<>>] >>] }

\* whoisNotFoundKeywordTest on one line of the lowercased, space-normalised raw
whoisNotFoundKeywordTest(line) == line = DeadLine

\* '__raw' in whois && typeof whois.__raw === 'string', and a line matches
RawHasDeadLine(raw) ==
  /\ raw[1] = "string"
  /\ \E i \in 2..Len(raw) : whoisNotFoundKeywordTest(raw[i])

RECURSIVE walkWhois(_)
RECURSIVE WalkKids(_, _)

\* the for-in loop over the nested nodes, from the i-th on: true as soon as
\* one of them walks to true
WalkKids(kids, i) ==
  IF i > Len(kids) THEN FALSE
  ELSE IF walkWhois(kids[i]) THEN TRUE
  ELSE WalkKids(kids, i + 1)

\* walkWhois without its whoisIsEmpty flag
walkWhoisNoEmptyTest(whois) == ~RawHasDeadLine(whois.raw)

\* a walk in which the nested nodes decide: a node with nested nodes is
\* registered only when one of them has a raw text free of dead phrases
walkWhoisKidsDecide(whois) ==
  /\ ~RawHasDeadLine(whois.raw)
  /\ IF Len(whois.kids) = 0
       THEN whois.raw[1] # "absent" \/ whois.fields # 0
       ELSE \E i \in 1..Len(whois.kids) : ~RawHasDeadLine(whois.kids[i].raw)

walkWhois(whois) ==
  IF RawHasDeadLine(whois.raw) THEN FALSE
  ELSE IF WalkKids(whois.kids, 1) THEN TRUE
  ELSE LET whoisIsEmpty ==
             /\ whois.raw[1] = "absent"
             /\ whois.fields = 0
             /\ Len(whois.kids) = 0
       IN ~whoisIsEmpty

\* the messages of the errors the WHOIS client rejects with
WhoisErrorMessages ==
  { "TLD for \"com\" not supported", "Invalid TLD \"com\"",
    "TLD \"com\" not found", "No WHOIS data found", "connect ETIMEDOUT", "" }

\* errorMessage.includes(needle), for the needles the classifier looks for
Includes(msg, needle) ==
  <<msg, needle>> \in
    { <<"TLD for \"com\" not supported", "TLD for \"">>,
      <<"TLD for \"com\" not supported", "\" not supported">>,
      <<"Invalid TLD \"com\"", "Invalid TLD \"">>,
      <<"Invalid TLD \"com\"", "TLD \"">>,
      <<"TLD \"com\" not found", "TLD \"">>,
      <<"TLD \"com\" not found", "\" not found">>,
      <<"No WHOIS data found", "No WHOIS data found">> }

\* the .catch handler on whoiserDomain: what one failed invocation becomes
ClassifyWhoisError(msg) ==
  IF msg # "" /\ Includes(msg, "TLD for \"") /\ Includes(msg, "\" not supported")
    THEN "whoiserTLDNotSupportedSymbol"
  ELSE IF msg # "" /\ (\/ Includes(msg, "Invalid TLD \"")
                       \/ (Includes(msg, "TLD \"") /\ Includes(msg, "\" not found")))
    THEN "bail"
  ELSE IF msg # "" /\ Includes(msg, "No WHOIS data found")
    THEN "whoiserNoWhoisSymbol"
  ELSE "throw"

\* the built-in TLD -> WHOIS server table, for the TLDs of the inputs
cacheTldWhoisServer(tld) == IF tld = "com" THEN "whois.verisign-grs.com" ELSE Undefined

\* host: cachedWhoisServer || undefined, the hint the WHOIS client is given;
\* the whois options are not consulted for it
WhoisHost(tld, whoisOptions) == cacheTldWhoisServer(tld)

\* no invocation of the WHOIS client settled the promise of asyncRetry yet
NoOutcome == [kind |-> "none"]

\* what one invocation of the WHOIS client can do
WhoisOutcomes ==
  { [kind |-> "object", obj |-> o] : o \in WhoisObjects }
    \cup { [kind |-> "error", msg |-> m] : m \in WhoisErrorMessages }

\* ------------------------------------------------------------- the state

VARIABLES
  options,     \* what the factory destructured: confirmations, maxAttempts, whois
  checkers,    \* the factory calls made: how many, and whether with one options object
  apexCache,   \* per Map made for registerableDomainResultCache: key -> result or NoEntry
  fqdnCache,   \* per checker, its resultCache: key -> result or NoEntry
  apexLock,    \* per checker, the apex mutex map: key -> the promise's task, 0 if none
  fqdnLock,    \* per checker, the FQDN checker's mutex map
  calls,       \* the calls issued so far, in the order they were issued
  callsLeft,   \* how many more calls the callers will issue
  apexTask,    \* per call: the apex thunk it started through withLock, if any
  fqdnTask,    \* per call: the FQDN thunk it started through withLock, if any
  whoisOp      \* per call: the asyncRetry operation that outlived its bailed promise

vars ==
  <<options, checkers, apexCache, fqdnCache, apexLock, fqdnLock, calls, callsLeft, apexTask, fqdnTask,
    whoisOp>>

\* maxAttempts taken as given, without the clamp
NoClamp(a, b) == a

\* Math.min
Min(a, b) == IF a <= b THEN a ELSE b

CallIds == 1..MaxCalls

\* the checkers createDomainAliveChecker can have returned, in creation order
Checkers == {1, 2}

\* options.registerableDomainResultCache ??= new Map(): the Map that is the
\* apex cache of checker i.  The first factory call stores its new Map in the
\* options object it was given; a later call given that object finds it
\* there and makes none.
RegisterableDomainResultCacheOf(i) == IF checkers.sameOptions THEN 1 ELSE i

\* a thunk that was never started
NoTask ==
  [st |-> "none", key |-> "", rd |-> Null, rdAlive |-> FALSE, order |-> <<>>, attempts |-> 0,
   confirmations |-> 0, tries |-> 0, hits |-> 0, dnsCalls |-> 0, dnsSettled |-> 0,
   whoisCalls |-> 0, shuffles |-> 0, used |-> <<>>,
   computed |-> FALSE, probes |-> <<>>, value |-> Undefined,
   tld |-> Null, host |-> Undefined, whois |-> NoOutcome, registered |-> NoOutcome]

\* no asyncRetry operation is left behind
NoRetryOp == [st |-> "none", tries |-> 0, whoisCalls |-> 0]

\* the orders shuffleArray(dnsServers, { copy: true }) can return
Shuffles ==
  { p \in [1..Len(DnsServers) -> 1..Len(DnsServers)] :
      \A i, j \in 1..Len(DnsServers) : p[i] = p[j] => i = j }

\* whois option objects: whoisErrorCountAsAlive unset, true or false, or a
\* customWhoisServersMapping with an entry for the TLD of the inputs
WhoisOptionsChoices ==
  { [timeout |-> 5000],
    [timeout |-> 5000, whoisErrorCountAsAlive |-> TRUE],
    [timeout |-> 5000, whoisErrorCountAsAlive |-> FALSE],
    [timeout |-> 5000, customWhoisServersMapping |-> [com |-> "whois.example.net"]] }

CacheKinds == {"sync", "async"}

\* the option objects a factory call can be given
OptionsChoices(kinds) ==
  { [dnsServers |-> DnsServers,
     maxConfirmations |-> c,
     _maxAttempts |-> m,
     maxAttempts |-> Min(m, Len(DnsServers)),
     retries |-> DnsRetries,
     whois |-> w,
     whoisRetries |-> WhoisRetries,
     apexCacheKind |-> ak,
     fqdnCacheKind |-> fk] :
      c \in 1..MaxConfirmations, m \in 1..(Len(DnsServers) + 1),
      w \in WhoisOptionsChoices, ak \in kinds, fk \in kinds }

\* maxAttempts and the whois options left unset: each server gets one attempt
DefaultsOf(o) == o._maxAttempts = Len(o.dnsServers) /\ o.whois = [timeout |-> 5000]

\* the state a factory call with options o leaves, before n calls
InitWith(o, n) ==
  /\ options = o
  /\ apexCache = [i \in Checkers |-> [k \in Keys |-> NoEntry]]
  /\ fqdnCache = [i \in Checkers |-> [k \in Keys |-> NoEntry]]
  /\ apexLock = [i \in Checkers |-> [k \in Keys |-> 0]]
  /\ fqdnLock = [i \in Checkers |-> [k \in Keys |-> 0]]
  /\ calls = <<>>
  /\ callsLeft = n
  /\ apexTask = [c \in CallIds |-> NoTask]
  /\ fqdnTask = [c \in CallIds |-> NoTask]
  /\ whoisOp = [c \in CallIds |-> NoRetryOp]

\* one factory call
OneChecker == [n |-> 1, sameOptions |-> FALSE]

\* An instance with the default caches (new Map() for both): either one
\* call under any options, or MaxCalls calls with maxAttempts and the whois
\* options left at their defaults.
Init ==
  /\ checkers = OneChecker
  /\ \E o \in OptionsChoices({"sync"}) :
       \/ InitWith(o, 1)
       \/ DefaultsOf(o) /\ InitWith(o, MaxCalls)

\* ----------------------------------------------------- mutex and cache

\* withLock without its lock.has(key) test: every call runs fn
LockHasNever(lock, key) == FALSE

\* lock.has(key)
LockHas(lock, key) == lock[key] # 0

\* a cache looked up by registerable domain: an entry of any key with the
\* registerable domain of the key counts
CacheHasOfApex(kind, cache, key) ==
  \E k \in Keys : getDomain(k) = getDomain(key) /\ cache[k] # NoEntry

\* a write for every thunk that ended, whether it returned or threw
CacheSetAlways(cache, t) == [cache EXCEPT ![t.key] = t.value]

\* cacheApply without its lookup: every call evaluates fn
CacheHasNever(kind, cache, key) == FALSE

\* the truthiness of cache?.has(key) as cacheApply tests it, unawaited: a
\* boolean from a synchronous cache, a Promise (truthy) from an asynchronous one
CacheHas(kind, cache, key) ==
  IF kind = "async" THEN TRUE ELSE cache[key] # NoEntry

\* what cache.get(key) resolves to
CacheGet(cache, key) == IF cache[key] = NoEntry THEN Undefined ELSE cache[key]

\* cacheApply without its write
CacheSetDropped(cache, t) == cache

\* cache.set(key, result), which cacheApply reaches only after its fn() returned
CacheSet(cache, t) == IF t.computed THEN [cache EXCEPT ![t.key] = t.value] ELSE cache

\* The promise of a thunk once it settled: its value or error stays; the
\* thunk's locals and the record of its probes are gone with the thunk.
Settled(t) ==
  [NoTask EXCEPT !.st = IF t.st = "returned" THEN "fulfilled" ELSE "rejected",
                 !.key = t.key, !.computed = t.computed, !.value = t.value]

\* withLock without its finally callback: the entry stays
LockKept(lock, key) == lock

\* lock.delete(key), the finally callback of withLock
LockDelete(lock, key) == [lock EXCEPT ![key] = 0]

\* ---------------------------------------------------------- DNS probes

\* what one invocation of a resolver can do: a response with a non-empty
\* answer section, a response with an empty one, or a failure
DnsOutcomes == {"answers", "empty", "error"}

\* what getPublicSuffix(registerableDomain) can return: a TLD or nothing
PublicSuffixes == {"com", Null}

\* The head of the while loop of a probe, reached once before the first
\* attempt and once after each attempt: return CONFIRMED, start the next
\* attempt, or leave the loop.
ProbeLoop(t) ==
  IF t.attempts < options.maxAttempts
    THEN IF t.confirmations >= options.maxConfirmations THEN "return" ELSE "query"
    ELSE "exit"

\* the record of a probe that is over
ProbeEnd(t, type, outcome) ==
  Append(t.probes, [type |-> type, hits |-> t.hits, attempts |-> t.attempts,
                    outcome |-> outcome])

\* two resolvers invoked at once
StartTwoQueries(t) ==
  [t EXCEPT !.tries = 0, !.dnsCalls = @ + 2,
            !.used = Append(@, (t.attempts % Len(options.dnsServers)) + 1)]

\* the promise of the resolver invocation the thunk awaits has settled
QuerySettled(t) == [t EXCEPT !.dnsSettled = @ + 1]

\* resolve = shuffledDnsClients[attempts % shuffledDnsClients.length], then
\* asyncRetry(() => resolve(name, type), dnsRetryOption): the first
\* invocation.  used lists the positions of the shuffled list the attempts
\* of the running probe took their resolver from.
StartAttempt(t) ==
  [t EXCEPT !.tries = 0, !.dnsCalls = @ + 1,
            !.used = Append(@, (t.attempts % Len(options.dnsServers)) + 1)]

\* one retry too many
RetryOnceMore(tries, retries) == tries <= retries

\* asyncRetry: one more invocation after a failed one, while retries are left
CanRetry(tries, retries) == tries < retries

\* the thunk returned value v
Returned(t, v) == [t EXCEPT !.st = "returned", !.computed = TRUE, !.value = v]

\* the thunk threw e
Threw(t, e) == [t EXCEPT !.st = "threw", !.value = e]

\* the option ignored: every WHOIS failure counts as alive
WhoisErrorAlwaysAlive == TRUE

\* whoisOptions.whoisErrorCountAsAlive ?? true, and the destructuring default
WhoisErrorCountAsAlive ==
  IF "whoisErrorCountAsAlive" \in DOMAIN options.whois
    THEN options.whois.whoisErrorCountAsAlive
    ELSE TRUE

ApexResult(rd, alive) == [registerableDomain |-> rd, alive |-> alive]

\* how domainHasBeenRegistered ends: it returns a boolean or throws
Return(b) == [kind |-> "return", value |-> b]
Throw(e) == [kind |-> "throw", error |-> e]

\* The promise of asyncRetry once an invocation settled as `how`, and what
\* domainHasBeenRegistered makes of it.  A bail rejects the promise with the
\* WhoisQueryError and used-up retries reject it with the client's error;
\* catch (e) turns either rejection into whoisErrorCountAsAlive.  A resolved
\* promise holds a sentinel or the object that walkWhois classifies.
WhoisVerdict(how, out) ==
  IF how = "object" THEN Return(walkWhois(out.obj))
  ELSE IF how = "whoiserTLDNotSupportedSymbol" THEN Return(TRUE)
  ELSE IF how = "whoiserNoWhoisSymbol" THEN Return(FALSE)
  ELSE Return(WhoisErrorCountAsAlive)

\* the try/catch of the apex thunk around domainHasBeenRegistered: alive is
\* what it returned, or whoisErrorCountAsAlive ?? true when it threw
ApexFromWhois(t, r) ==
  Returned([t EXCEPT !.registered = r],
           ApexResult(t.rd, IF r.kind = "return" THEN r.value ELSE WhoisErrorCountAsAlive))

\* Step 2 of the apex thunk: domainHasBeenRegistered up to its first
\* suspension.  Without a TLD it throws a TypeError; otherwise the WHOIS
\* client is invoked with the host of the TLD as its hint.
WhoisStart(t, tld) ==
  IF tld = Null
    THEN ApexFromWhois(t, Throw("TypeError"))
    ELSE [t EXCEPT !.st = "whois", !.tries = 0, !.whoisCalls = @ + 1,
                   !.tld = tld, !.host = WhoisHost(tld, options.whois)]

\* the NS loop after an attempt is over (finally: attempts++)
AfterNsAttempt(t, tld) ==
  LET t1 == [t EXCEPT !.attempts = @ + 1]
      how == ProbeLoop(t1)
  IN  IF how = "return"
        THEN Returned([t1 EXCEPT !.probes = ProbeEnd(t1, "NS", "CONFIRMED")],
                      ApexResult(t1.rd, TRUE))
      ELSE IF how = "query" THEN StartAttempt(t1)
      ELSE WhoisStart([t1 EXCEPT !.probes = ProbeEnd(t1, "NS", "NOT_CONFIRMED")], tld)

\* An attempt whose resolver failed with no retry left, in a try without a
\* catch (the A and the AAAA loop): finally runs (attempts++) and the error
\* leaves the thunk.
AttemptThrew(t, type) ==
  LET t1 == [t EXCEPT !.attempts = @ + 1]
  IN  Threw([t1 EXCEPT !.probes = ProbeEnd(t1, type, "THREW")], DnsError)

\* the NS loop with the try of the A loop, which has no catch
NsNoCatch(t, tld) == AttemptThrew(t, "NS")

\* An NS attempt whose resolver failed with no retry left: the catch logs the
\* error, finally runs and the loop goes on.
NsCatch(t, tld) == AfterNsAttempt(t, tld)

\* resp.answers.length > 0: confirmations++
Confirm(t) == [t EXCEPT !.confirmations = @ + 1, !.hits = @ + 1]

\* the null test left out
NullNotDetected(registerableDomain) == FALSE

\* registerableDomain === null, the test of both checkers
NoRegisterableDomain(registerableDomain) == registerableDomain = Null

\* the dead-apex return left out
ApexDeadIgnored(r) == FALSE

\* the dead-apex test with its negation dropped
ApexDeadInverted(r) == r.alive

\* !registerableDomainAliveResult.alive
ApexDead(r) == ~r.alive

\* the apex-identity test left out: every input is probed as a subdomain
SubdomainAlways(r, domain) == FALSE

\* registerableDomainAliveResult.registerableDomain === domain
NoSubdomain(r, domain) == r.registerableDomain = domain

\* The async thunk of isRegisterableDomainAlive up to its first suspension.
\* Attempt i goes to shuffledDnsClients[i % length]; every resolver can answer
\* in every way (DnsOutcomes), so the order of the NS probe is not kept.
ApexThunk(key, tld) ==
  LET registerableDomain == getDomain(key)
      t0 == [NoTask EXCEPT !.key = key, !.rd = registerableDomain]
  IN  IF NoRegisterableDomain(registerableDomain)
        THEN Returned(t0, sharedNullResponse)
      ELSE LET t1 == [t0 EXCEPT !.st = "ns", !.shuffles = 1]
               shuffledDnsClients == getDnsClients(options.dnsServers)
               how == ProbeLoop(t1)
           IN  IF shuffledDnsClients.kind = "throw"
                 THEN Threw(t1, shuffledDnsClients.error)
               ELSE IF how = "return"
                 THEN Returned([t1 EXCEPT !.probes = ProbeEnd(t1, "NS", "CONFIRMED")],
                               ApexResult(registerableDomain, TRUE))
               ELSE IF how = "query" THEN StartAttempt(t1)
               ELSE WhoisStart([t1 EXCEPT !.probes = ProbeEnd(t1, "NS", "NOT_CONFIRMED")],
                               tld)

\* cacheApply(cache, key, fn) up to its first suspension: the cached entry
\* when has(key) is truthy, and fn() otherwise
cacheApply(kind, cache, key, fn) ==
  IF CacheHas(kind, cache, key)
    THEN [NoTask EXCEPT !.st = "returned", !.key = key, !.value = CacheGet(cache, key)]
    ELSE fn

\* ---------------------------------------------------------- FQDN thunk

FqdnResult(rd, rdAlive, alive) ==
  [registerableDomain |-> rd, registerableDomainAlive |-> rdAlive, alive |-> alive]

\* the IPv6 block up to its first suspension
AaaaStart(t) ==
  LET t1 == [t EXCEPT !.st = "aaaa", !.attempts = 0, !.confirmations = 0, !.hits = 0,
                      !.used = <<>>]
      how == ProbeLoop(t1)
  IN  IF how = "return"
        THEN Returned([t1 EXCEPT !.probes = ProbeEnd(t1, "AAAA", "CONFIRMED")],
                      FqdnResult(t1.rd, t1.rdAlive, TRUE))
      ELSE IF how = "query" THEN StartAttempt(t1)
      ELSE Returned([t1 EXCEPT !.probes = ProbeEnd(t1, "AAAA", "NOT_CONFIRMED")],
                    FqdnResult(t1.rd, t1.rdAlive, FALSE))

\* the A loop after an attempt that did not throw (finally: attempts++)
AfterAAttempt(t) ==
  LET t1 == [t EXCEPT !.attempts = @ + 1]
      how == ProbeLoop(t1)
  IN  IF how = "return"
        THEN Returned([t1 EXCEPT !.probes = ProbeEnd(t1, "A", "CONFIRMED")],
                      FqdnResult(t1.rd, t1.rdAlive, TRUE))
      ELSE IF how = "query" THEN StartAttempt(t1)
      ELSE AaaaStart([t1 EXCEPT !.probes = ProbeEnd(t1, "A", "NOT_CONFIRMED")])

\* the AAAA loop after an attempt that did not throw (finally: attempts++)
AfterAaaaAttempt(t) ==
  LET t1 == [t EXCEPT !.attempts = @ + 1]
      how == ProbeLoop(t1)
  IN  IF how = "return"
        THEN Returned([t1 EXCEPT !.probes = ProbeEnd(t1, "AAAA", "CONFIRMED")],
                      FqdnResult(t1.rd, t1.rdAlive, TRUE))
      ELSE IF how = "query" THEN StartAttempt(t1)
      ELSE Returned([t1 EXCEPT !.probes = ProbeEnd(t1, "AAAA", "NOT_CONFIRMED")],
                    FqdnResult(t1.rd, t1.rdAlive, FALSE))

\* the async thunk of isDomainAlive up to its first suspension; r is the
\* registerableDomainAliveResult its closure holds
FqdnThunk(key, r, order) ==
  LET t1 == [NoTask EXCEPT !.key = key, !.rd = r.registerableDomain,
                           !.rdAlive = r.alive, !.order = order, !.shuffles = 1,
                           !.st = "a"]
      shuffledDnsClients == getDnsClients(options.dnsServers)
      how == ProbeLoop(t1)
  IN  IF shuffledDnsClients.kind = "throw"
        THEN Threw(t1, shuffledDnsClients.error)
      ELSE IF how = "return"
        THEN Returned([t1 EXCEPT !.probes = ProbeEnd(t1, "A", "CONFIRMED")],
                      FqdnResult(t1.rd, t1.rdAlive, TRUE))
      ELSE IF how = "query" THEN StartAttempt(t1)
      ELSE AaaaStart([t1 EXCEPT !.probes = ProbeEnd(t1, "A", "NOT_CONFIRMED")])

\* --------------------------------------------------------------- calls

\* the results of the calls of this API of checker i with this key that are
\* complete
Completed(i, api, key) ==
  { calls[d].result : d \in { j \in 1..Len(calls) :
      /\ calls[j].inst = i /\ calls[j].api = api
      /\ calls[j].key = key /\ calls[j].pc = "done" } }

NewCall(i, api, key, p) ==
  [inst |-> i, api |-> api, key |-> key, pc |-> "awaitApex", apexP |-> p, fqdnP |-> 0,
   result |-> Undefined, seen |-> Completed(i, api, key)]

\* mutex(domain, () => cacheApply(registerableDomainResultCache, domain, thunk)),
\* entered by call c of checker i: the promise of the entry there is, or a
\* new thunk
EnterApex(c, i, api, key) ==
  IF LockHas(apexLock[i], key)
    THEN /\ calls' = Append(calls, NewCall(i, api, key, apexLock[i][key]))
         /\ UNCHANGED <<apexLock, apexTask>>
    ELSE /\ \E tld \in PublicSuffixes :
              apexTask' = [apexTask EXCEPT ![c] =
                cacheApply(options.apexCacheKind,
                           apexCache[RegisterableDomainResultCacheOf(i)], key,
                           ApexThunk(key, tld))]
         /\ apexLock' = [apexLock EXCEPT ![i][key] = c]
         /\ calls' = Append(calls, NewCall(i, api, key, c))

\* Promise jobs are queued: a thunk returned or threw and its promise has not
\* settled, or a call awaits a promise that has.  The event loop runs every
\* queued promise job before the next I/O callback or timer, which is where
\* the responses of the resolvers and of the WHOIS client arrive.
JobsQueued ==
  \/ \E c \in CallIds : apexTask[c].st \in {"returned", "threw"}
  \/ \E c \in CallIds : fqdnTask[c].st \in {"returned", "threw"}
  \/ \E c \in 1..Len(calls) :
       \/ /\ calls[c].pc = "awaitApex"
          /\ apexTask[calls[c].apexP].st \in {"fulfilled", "rejected"}
       \/ /\ calls[c].pc = "awaitFqdn"
          /\ fqdnTask[calls[c].fqdnP].st \in {"fulfilled", "rejected"}

\* a caller invokes the isRegisterableDomainAlive(input) of checker i
CallApex(i, input) ==
  /\ callsLeft > 0
  /\ callsLeft' = callsLeft - 1
  /\ EnterApex(Len(calls) + 1, i, "apex", toASCII(input))
  /\ UNCHANGED <<options, checkers, whoisOp, apexCache, fqdnCache, fqdnLock, fqdnTask>>

\* a caller invokes the isDomainAlive(input) of checker i, which first awaits
\* its apex checker
CallFqdn(i, input) ==
  /\ callsLeft > 0
  /\ callsLeft' = callsLeft - 1
  /\ EnterApex(Len(calls) + 1, i, "fqdn", toASCII(input))
  /\ UNCHANGED <<options, checkers, whoisOp, apexCache, fqdnCache, fqdnLock, fqdnTask>>

\* a resolver invocation of the NS probe of call c's apex thunk settles
NsResponse(c, outcome, tld) ==
  LET t == QuerySettled(apexTask[c]) IN
  /\ t.st = "ns"
  /\ ~JobsQueued
  /\ apexTask' = [apexTask EXCEPT ![c] =
       IF outcome = "answers" THEN AfterNsAttempt(Confirm(t), tld)
       ELSE IF outcome = "empty" THEN AfterNsAttempt(t, tld)
       ELSE IF CanRetry(t.tries, options.retries)
         THEN [t EXCEPT !.tries = @ + 1, !.dnsCalls = @ + 1]
       ELSE NsCatch(t, tld)]
  /\ UNCHANGED <<options, checkers, whoisOp, apexCache, fqdnCache, apexLock, fqdnLock, calls, callsLeft, fqdnTask>>

\* An invocation of the WHOIS client by call c's apex thunk settles.  The
\* .catch handler returns a sentinel, or calls bail and then throws, or
\* throws; asyncRetry resolves with what was returned, retries after a throw
\* while retries are left, and rejects otherwise.  bail(...) rejects the
\* promise at once, and the throw that follows it is one more failed attempt
\* to asyncRetry: with a retry left it schedules the next invocation, which
\* runs after domainHasBeenRegistered has returned.
WhoisResponse(c, out) ==
  LET t == apexTask[c]
      how == IF out.kind = "object" THEN "object" ELSE ClassifyWhoisError(out.msg)
      retry == CanRetry(t.tries, options.whoisRetries)
  IN
  /\ t.st = "whois"
  /\ ~JobsQueued
  /\ apexTask' = [apexTask EXCEPT ![c] =
       IF how = "throw" /\ retry
         THEN [t EXCEPT !.tries = @ + 1, !.whoisCalls = @ + 1]
         ELSE ApexFromWhois([t EXCEPT !.whois = out], WhoisVerdict(how, out))]
  /\ whoisOp' = [whoisOp EXCEPT ![c] =
       IF how = "bail" /\ retry
         THEN [st |-> "pending", tries |-> t.tries + 1, whoisCalls |-> t.whoisCalls + 1]
         ELSE @]
  /\ UNCHANGED <<options, checkers, apexCache, fqdnCache, apexLock, fqdnLock, calls, callsLeft, fqdnTask>>

\* An invocation of the WHOIS client made by an asyncRetry operation whose
\* promise was bailed settles: a returned value resolves a promise that is
\* already rejected, a throw is retried while retries are left.
BailedWhoisResponse(c, out) ==
  LET op == whoisOp[c]
      how == IF out.kind = "object" THEN "object" ELSE ClassifyWhoisError(out.msg)
  IN
  /\ op.st = "pending"
  /\ ~JobsQueued
  /\ whoisOp' = [whoisOp EXCEPT ![c] =
       IF how \in {"bail", "throw"} /\ CanRetry(op.tries, options.whoisRetries)
         THEN [op EXCEPT !.tries = @ + 1, !.whoisCalls = @ + 1]
         ELSE NoRetryOp]
  /\ UNCHANGED <<options, checkers, apexCache, fqdnCache, apexLock, fqdnLock, calls, callsLeft,
                 apexTask, fqdnTask>>

\* cacheApply's continuation after fn() and withLock's finally, for the apex
\* thunk of call c: the result is written to the cache, the entry is deleted
\* from the mutex and the promise settles
ApexSettle(c) ==
  LET t == apexTask[c] IN
  /\ t.st \in {"returned", "threw"}
  /\ apexCache' = [apexCache EXCEPT
       ![RegisterableDomainResultCacheOf(calls[c].inst)] = CacheSet(@, t)]
  /\ apexLock' = [apexLock EXCEPT ![calls[c].inst] = LockDelete(@, t.key)]
  /\ apexTask' = [apexTask EXCEPT ![c] = Settled(t)]
  /\ UNCHANGED <<options, checkers, whoisOp, fqdnCache, fqdnLock, calls, callsLeft, fqdnTask>>

\* isRegisterableDomainAlive, called directly, returns what its promise holds
ApexReturn(c) ==
  /\ c \in 1..Len(calls)
  /\ calls[c].api = "apex"
  /\ calls[c].pc = "awaitApex"
  /\ apexTask[calls[c].apexP].st \in {"fulfilled", "rejected"}
  /\ calls' = [calls EXCEPT ![c].pc =
                 IF apexTask[calls[c].apexP].st = "fulfilled" THEN "done" ELSE "failed",
               ![c].result = apexTask[calls[c].apexP].value]
  /\ UNCHANGED <<options, checkers, whoisOp, apexCache, fqdnCache, apexLock, fqdnLock, callsLeft, apexTask, fqdnTask>>

\* isDomainAlive resumes with the apex result: the three early returns, or
\* mutex(domain, () => cacheApply(resultCache, domain, thunk))
FqdnResume(c) ==
  /\ c \in 1..Len(calls)
  /\ calls[c].api = "fqdn"
  /\ calls[c].pc = "awaitApex"
  /\ apexTask[calls[c].apexP].st \in {"fulfilled", "rejected"}
  /\ LET r == apexTask[calls[c].apexP].value
         key == calls[c].key
         i == calls[c].inst
     IN  IF apexTask[calls[c].apexP].st = "rejected"
           THEN /\ calls' = [calls EXCEPT ![c].pc = "failed", ![c].result = r]
                /\ UNCHANGED <<fqdnLock, fqdnTask>>
         ELSE IF r = Undefined
           THEN /\ calls' = [calls EXCEPT ![c].pc = "failed",
                                          ![c].result = TypeErrorOfUndefined]
                /\ UNCHANGED <<fqdnLock, fqdnTask>>
         ELSE IF NoRegisterableDomain(r.registerableDomain)
           THEN /\ calls' = [calls EXCEPT ![c].pc = "done",
                                          ![c].result = sharedNullishResult]
                /\ UNCHANGED <<fqdnLock, fqdnTask>>
         ELSE IF ApexDead(r)
           THEN /\ calls' = [calls EXCEPT ![c].pc = "done",
                    ![c].result = FqdnResult(r.registerableDomain, FALSE, FALSE)]
                /\ UNCHANGED <<fqdnLock, fqdnTask>>
         ELSE IF NoSubdomain(r, key)
           THEN /\ calls' = [calls EXCEPT ![c].pc = "done",
                    ![c].result = FqdnResult(r.registerableDomain, r.alive, r.alive)]
                /\ UNCHANGED <<fqdnLock, fqdnTask>>
         ELSE IF LockHas(fqdnLock[i], key)
           THEN /\ calls' = [calls EXCEPT ![c].pc = "awaitFqdn",
                                          ![c].fqdnP = fqdnLock[i][key]]
                /\ UNCHANGED <<fqdnLock, fqdnTask>>
         ELSE /\ \E order \in Shuffles :
                   fqdnTask' = [fqdnTask EXCEPT ![c] =
                     cacheApply(options.fqdnCacheKind, fqdnCache[i], key,
                                FqdnThunk(key, r, order))]
              /\ fqdnLock' = [fqdnLock EXCEPT ![i][key] = c]
              /\ calls' = [calls EXCEPT ![c].pc = "awaitFqdn", ![c].fqdnP = c]
  /\ UNCHANGED <<options, checkers, whoisOp, apexCache, fqdnCache, apexLock, callsLeft, apexTask>>

\* a resolver invocation of the A probe of call c's FQDN thunk settles
AResponse(c, outcome) ==
  LET t == QuerySettled(fqdnTask[c]) IN
  /\ t.st = "a"
  /\ ~JobsQueued
  /\ fqdnTask' = [fqdnTask EXCEPT ![c] =
       IF outcome = "answers" THEN AfterAAttempt(Confirm(t))
       ELSE IF outcome = "empty" THEN AfterAAttempt(t)
       ELSE IF CanRetry(t.tries, options.retries)
         THEN [t EXCEPT !.tries = @ + 1, !.dnsCalls = @ + 1]
       ELSE AttemptThrew(t, "A")]
  /\ UNCHANGED <<options, checkers, whoisOp, apexCache, fqdnCache, apexLock, fqdnLock, calls, callsLeft, apexTask>>

\* a resolver invocation of the AAAA probe of call c's FQDN thunk settles
AaaaResponse(c, outcome) ==
  LET t == QuerySettled(fqdnTask[c]) IN
  /\ t.st = "aaaa"
  /\ ~JobsQueued
  /\ fqdnTask' = [fqdnTask EXCEPT ![c] =
       IF outcome = "answers" THEN AfterAaaaAttempt(Confirm(t))
       ELSE IF outcome = "empty" THEN AfterAaaaAttempt(t)
       ELSE IF CanRetry(t.tries, options.retries)
         THEN [t EXCEPT !.tries = @ + 1, !.dnsCalls = @ + 1]
       ELSE AttemptThrew(t, "AAAA")]
  /\ UNCHANGED <<options, checkers, whoisOp, apexCache, fqdnCache, apexLock, fqdnLock, calls, callsLeft, apexTask>>

\* cacheApply's continuation after fn() and withLock's finally, for the FQDN
\* thunk of call c; a thunk that threw writes nothing
FqdnSettle(c) ==
  LET t == fqdnTask[c] IN
  /\ t.st \in {"returned", "threw"}
  /\ fqdnCache' = [fqdnCache EXCEPT ![calls[c].inst] = CacheSet(@, t)]
  /\ fqdnLock' = [fqdnLock EXCEPT ![calls[c].inst] = LockDelete(@, t.key)]
  /\ fqdnTask' = [fqdnTask EXCEPT ![c] = Settled(t)]
  /\ UNCHANGED <<options, checkers, whoisOp, apexCache, apexLock, calls, callsLeft, apexTask>>

\* isDomainAlive returns, or fails with, what the FQDN promise settled with
FqdnReturn(c) ==
  /\ c \in 1..Len(calls)
  /\ calls[c].pc = "awaitFqdn"
  /\ fqdnTask[calls[c].fqdnP].st \in {"fulfilled", "rejected"}
  /\ calls' = [calls EXCEPT ![c].pc =
                 IF fqdnTask[calls[c].fqdnP].st = "fulfilled" THEN "done" ELSE "failed",
               ![c].result = fqdnTask[calls[c].fqdnP].value]
  /\ UNCHANGED <<options, checkers, whoisOp, apexCache, fqdnCache, apexLock, fqdnLock, callsLeft, apexTask, fqdnTask>>

Next ==
  \/ \E i \in 1..checkers.n, d \in Inputs : CallApex(i, d)
  \/ \E i \in 1..checkers.n, d \in Inputs : CallFqdn(i, d)
  \/ \E c \in CallIds, o \in DnsOutcomes, tld \in PublicSuffixes : NsResponse(c, o, tld)
  \/ \E c \in CallIds, out \in WhoisOutcomes : WhoisResponse(c, out)
  \/ \E c \in CallIds, out \in WhoisOutcomes : BailedWhoisResponse(c, out)
  \/ \E c \in CallIds : ApexSettle(c)
  \/ \E c \in CallIds : ApexReturn(c)
  \/ \E c \in CallIds : FqdnResume(c)
  \/ \E c \in CallIds, o \in DnsOutcomes : AResponse(c, o)
  \/ \E c \in CallIds, o \in DnsOutcomes : AaaaResponse(c, o)
  \/ \E c \in CallIds : FqdnSettle(c)
  \/ \E c \in CallIds : FqdnReturn(c)

Spec == Init /\ [][Next]_vars

\* caller-supplied caches of either shape, synchronous or asynchronous
InitAnyCache ==
  /\ checkers = OneChecker
  /\ \E o \in OptionsChoices(CacheKinds) : DefaultsOf(o) /\ InitWith(o, MaxCalls)

SpecAnyCache == InitAnyCache /\ [][Next]_vars

\* Two createDomainAliveChecker calls, given one options object or two equal
\* ones, without caches in them; dns.maxAttempts is 1 and dns.confirmations
\* the largest value.
InitTwoCheckers ==
  /\ \E b \in BOOLEAN : checkers = [n |-> 2, sameOptions |-> b]
  /\ \E o \in OptionsChoices({"sync"}) :
       /\ o.maxAttempts = 1
       /\ o.maxConfirmations = MaxConfirmations
       /\ o.whois = [timeout |-> 5000]
       /\ InitWith(o, MaxCalls)

SpecTwoCheckers == InitTwoCheckers /\ [][Next]_vars

\* One checker whose factory was given either list of ServerLists as
\* dns.dnsServers (both have the same length, so the clamp of maxAttempts is
\* the same): one call under any options with the servers above, or
\* MaxCalls calls with one attempt per probe and the whois options at their
\* defaults with either list.  The factory reads dnsServers only for its
\* length and returns the checker in both cases.
InitAnyServers ==
  /\ checkers = OneChecker
  /\ \E o \in OptionsChoices({"sync"}) :
       \/ InitWith(o, 1)
       \/ /\ o._maxAttempts = 1
          /\ o.whois = [timeout |-> 5000]
          /\ \E s \in ServerLists : InitWith([o EXCEPT !.dnsServers = s], MaxCalls)

SpecAnyServers == InitAnyServers /\ [][Next]_vars

\* ================================================================ claims

Tasks == {apexTask[c] : c \in CallIds} \cup {fqdnTask[c] : c \in CallIds}

\* a thunk that was started and whose promise has not settled
InFlight(t) == t.st \in {"ns", "whois", "a", "aaaa", "returned", "threw"}

\* C1: every probe that is over (NS, A or AAAA) ended CONFIRMED if and only
\* if at least maxConfirmations of its attempts returned a non-empty answer,
\* whichever attempt brought the count to the threshold.
C1_ConfirmedIffThreshold ==
  \A t \in Tasks : \A i \in 1..Len(t.probes) :
    (t.probes[i].outcome = "CONFIRMED") <=> (t.probes[i].hits >= options.maxConfirmations)

\* C2: once the NS probe of an apex thunk saw at least maxConfirmations
\* non-empty answers, the thunk never invokes the WHOIS client and returns
\* {registerableDomain, alive: true}.
C2_NsThresholdSkipsWhois ==
  \A c \in CallIds :
    LET t == apexTask[c] IN
    (Len(t.probes) > 0 /\ t.probes[1].hits >= options.maxConfirmations)
      => /\ t.whoisCalls = 0
         /\ t.st # "whois"
         /\ t.st = "returned" => t.value = ApexResult(t.rd, TRUE)

\* C3: in each coalescer (the apex and the FQDN mutex of a checker) at most
\* one thunk per key is in flight at any moment, and the calls that wait on
\* a key while a thunk of that key is in flight all wait on that one thunk.
C3_OneThunkPerKey ==
  /\ \A c1, c2 \in 1..Len(calls) :
       /\ (InFlight(apexTask[c1]) /\ InFlight(apexTask[c2])
             /\ calls[c1].inst = calls[c2].inst
             /\ apexTask[c1].key = apexTask[c2].key) => c1 = c2
       /\ (InFlight(fqdnTask[c1]) /\ InFlight(fqdnTask[c2])
             /\ calls[c1].inst = calls[c2].inst
             /\ fqdnTask[c1].key = fqdnTask[c2].key) => c1 = c2
  /\ \A c1, c2 \in 1..Len(calls) :
       /\ (calls[c1].pc = "awaitApex" /\ calls[c2].pc = "awaitApex"
             /\ calls[c1].inst = calls[c2].inst
             /\ calls[c1].key = calls[c2].key
             /\ InFlight(apexTask[calls[c1].apexP]) /\ InFlight(apexTask[calls[c2].apexP]))
            => calls[c1].apexP = calls[c2].apexP
       /\ (calls[c1].pc = "awaitFqdn" /\ calls[c2].pc = "awaitFqdn"
             /\ calls[c1].inst = calls[c2].inst
             /\ calls[c1].key = calls[c2].key
             /\ InFlight(fqdnTask[calls[c1].fqdnP]) /\ InFlight(fqdnTask[calls[c2].fqdnP]))
            => calls[c1].fqdnP = calls[c2].fqdnP

\* two calls with one key wait on one FQDN thunk that is probing
C3_Witness ==
  \E c1, c2 \in 1..Len(calls) :
    /\ c1 # c2
    /\ calls[c1].key = calls[c2].key
    /\ calls[c1].pc = "awaitFqdn" /\ calls[c2].pc = "awaitFqdn"
    /\ calls[c1].fqdnP = calls[c2].fqdnP
    /\ fqdnTask[calls[c1].fqdnP].st = "aaaa"
    /\ fqdnTask[calls[c1].fqdnP].dnsCalls > 1

\* C4: a resolver that fails on its first try and on every retry never makes
\* an FQDN thunk throw nor an isDomainAlive call fail.
C4_ResolverFailureNotThrown ==
  /\ \A c \in CallIds : fqdnTask[c].st \notin {"threw", "rejected"}
  /\ \A c \in 1..Len(calls) : calls[c].pc # "failed"

\* C5: the apex thunk never throws and isRegisterableDomainAlive never fails;
\* for an input with a registerable domain it returns that domain with a
\* boolean verdict.
C5_ApexNeverFails ==
  /\ \A c \in CallIds :
       /\ apexTask[c].st \notin {"threw", "rejected"}
       /\ (apexTask[c].st = "returned" /\ apexTask[c].computed
             /\ getDomain(apexTask[c].key) # Null)
            => \E b \in BOOLEAN :
                 apexTask[c].value = ApexResult(getDomain(apexTask[c].key), b)
  /\ \A c \in 1..Len(calls) :
       calls[c].api = "apex" =>
         /\ calls[c].pc # "failed"
         /\ (calls[c].pc = "done" /\ getDomain(calls[c].key) # Null)
              => \E b \in BOOLEAN :
                   calls[c].result = ApexResult(getDomain(calls[c].key), b)

\* every NS attempt used up its retries, the WHOIS client failed on every
\* try, and the thunk returned a verdict
C5_Witness ==
  \E c \in CallIds :
    /\ apexTask[c].st = "returned"
    /\ apexTask[c].dnsCalls = options.maxAttempts * (options.retries + 1)
    /\ options.maxAttempts > 1
    /\ apexTask[c].whoisCalls = options.whoisRetries + 1
    /\ apexTask[c].value = ApexResult("a.com", FALSE)

\* C6, as claimed: after a successful call the cache of the checker called
\* holds under the normalized input exactly the result returned, whichever
\* path produced it.
C6_CacheHoldsEveryResult ==
  \A c \in 1..Len(calls) :
    calls[c].pc = "done" =>
      IF calls[c].api = "apex"
        THEN apexCache[RegisterableDomainResultCacheOf(calls[c].inst)][calls[c].key]
               = calls[c].result
        ELSE fqdnCache[calls[c].inst][calls[c].key] = calls[c].result

\* C6, amended: after a successful isRegisterableDomainAlive(d) the apex
\* cache holds under d the result returned.  After a successful
\* isDomainAlive(d) the apex cache holds under d the apex result the answer
\* was built from; the FQDN cache holds under d the result returned when the
\* call went through the FQDN thunk (a subdomain of an alive apex), and holds
\* nothing under d when the apex was null, dead or equal to d.
C6_CacheHoldsResult ==
  \A c \in 1..Len(calls) :
    calls[c].pc = "done" =>
      LET apexMap == apexCache[RegisterableDomainResultCacheOf(calls[c].inst)]
          fqdnMap == fqdnCache[calls[c].inst]
      IN
      IF calls[c].api = "apex"
        THEN apexMap[calls[c].key] = calls[c].result
        ELSE /\ apexMap[calls[c].key] =
                  ApexResult(calls[c].result.registerableDomain,
                             calls[c].result.registerableDomainAlive)
             /\ IF calls[c].fqdnP # 0
                  THEN fqdnMap[calls[c].key] = calls[c].result
                  ELSE fqdnMap[calls[c].key] = NoEntry

\* an isDomainAlive call returned what its FQDN thunk probed, and another
\* returned early
C6_Witness ==
  \E c1, c2 \in 1..Len(calls) :
    /\ calls[c1].api = "fqdn" /\ calls[c1].pc = "done" /\ calls[c1].fqdnP # 0
    /\ calls[c1].result.alive
    /\ calls[c2].api = "fqdn" /\ calls[c2].pc = "done" /\ calls[c2].fqdnP = 0

\* C7: a call issued after a call of the same API with the same input
\* completed successfully invokes no resolver and no WHOIS client, waits on
\* no thunk that does, does not fail, and returns an equal result.
C7_LaterCallServedFromCache ==
  \A c \in 1..Len(calls) :
    calls[c].seen # {} =>
      /\ apexTask[c].dnsCalls = 0 /\ apexTask[c].whoisCalls = 0
      /\ fqdnTask[c].dnsCalls = 0
      /\ apexTask[calls[c].apexP].dnsCalls = 0
      /\ apexTask[calls[c].apexP].whoisCalls = 0
      /\ calls[c].fqdnP # 0 => fqdnTask[calls[c].fqdnP].dnsCalls = 0
      /\ calls[c].pc # "failed"
      /\ calls[c].pc = "done" => \A r \in calls[c].seen : calls[c].result = r

\* a later isDomainAlive call of a probed subdomain completed
C7_Witness ==
  \E c \in 1..Len(calls) :
    /\ calls[c].seen # {}
    /\ calls[c].api = "fqdn"
    /\ calls[c].pc = "done"
    /\ calls[c].fqdnP = c
    /\ calls[c].result.alive

\* C8: cacheApply returns the cached get(key) only when the cache holds the
\* key; when it does not, fn is evaluated and its result is what is returned.
C8_GetOnlyWhenHas ==
  \A c \in 1..Len(calls) :
    LET apexMap == apexCache[RegisterableDomainResultCacheOf(calls[c].inst)]
        fqdnMap == fqdnCache[calls[c].inst]
    IN
    /\ (apexTask[c].st \in {"returned", "fulfilled"} /\ ~apexTask[c].computed)
         => /\ apexMap[apexTask[c].key] # NoEntry
            /\ apexTask[c].value = apexMap[apexTask[c].key]
    /\ (fqdnTask[c].st \in {"returned", "fulfilled"} /\ ~fqdnTask[c].computed)
         => /\ fqdnMap[fqdnTask[c].key] # NoEntry
            /\ fqdnTask[c].value = fqdnMap[fqdnTask[c].key]

\* C9: for a key without a registerable domain no resolver and no WHOIS
\* client is ever invoked, no FQDN thunk is started, and the calls complete
\* with the shared null results.
C9_NullPropagation ==
  /\ \A c \in CallIds :
       /\ (apexTask[c].st # "none" /\ getDomain(apexTask[c].key) = Null)
            => /\ apexTask[c].st \in {"returned", "fulfilled"}
               /\ apexTask[c].dnsCalls = 0
               /\ apexTask[c].whoisCalls = 0
               /\ apexTask[c].value = sharedNullResponse
       /\ fqdnTask[c].st # "none" => getDomain(fqdnTask[c].key) # Null
  /\ \A c \in 1..Len(calls) :
       getDomain(calls[c].key) = Null =>
         /\ calls[c].pc \in {"awaitApex", "done"}
         /\ calls[c].pc = "done" =>
              calls[c].result =
                IF calls[c].api = "apex" THEN sharedNullResponse ELSE sharedNullishResult

\* both APIs returned for an input without a registerable domain
C9_Witness ==
  \E c1, c2 \in 1..Len(calls) :
    /\ getDomain(calls[c1].key) = Null /\ getDomain(calls[c2].key) = Null
    /\ calls[c1].api = "apex" /\ calls[c1].pc = "done"
    /\ calls[c2].api = "fqdn" /\ calls[c2].pc = "done"

\* C10: every result isDomainAlive returned has alive => registerableDomainAlive,
\* both flags false when registerableDomain is null, and alive equal to
\* registerableDomainAlive when the normalized input is the registerable domain.
C10_FqdnResultInvariants ==
  \A c \in 1..Len(calls) :
    (calls[c].api = "fqdn" /\ calls[c].pc = "done") =>
      LET r == calls[c].result IN
      /\ r.alive => r.registerableDomainAlive
      /\ r.registerableDomain = Null => (~r.registerableDomainAlive /\ ~r.alive)
      /\ calls[c].key = r.registerableDomain => r.alive = r.registerableDomainAlive

\* a fresh result and a result served from the cache, both alive
C10_Witness ==
  \E c1, c2 \in 1..Len(calls) :
    /\ calls[c1].api = "fqdn" /\ calls[c1].pc = "done" /\ calls[c1].result.alive
    /\ calls[c1].key # calls[c1].result.registerableDomain
    /\ calls[c2].api = "fqdn" /\ calls[c2].pc = "done" /\ calls[c2].seen # {}
    /\ calls[c2].result.alive

\* C11: an isDomainAlive call whose normalized input is its registerable
\* domain and whose apex result is alive completes, as soon as it resumes,
\* with {registerableDomain, registerableDomainAlive: true, alive: true}; it
\* starts no FQDN thunk, waits on none and issues no A and no AAAA query.
C11_ApexIdentityShortcut ==
  \A c \in 1..Len(calls) :
    LET p == apexTask[calls[c].apexP] IN
    (/\ calls[c].api = "fqdn"
     /\ calls[c].pc # "awaitApex"
     /\ p.st = "fulfilled" /\ p.value # Undefined
     /\ p.value.registerableDomain = calls[c].key
     /\ p.value.alive)
      => /\ calls[c].pc = "done"
         /\ calls[c].result = FqdnResult(calls[c].key, TRUE, TRUE)
         /\ calls[c].fqdnP = 0
         /\ fqdnTask[c].st = "none" /\ fqdnTask[c].dnsCalls = 0

\* isDomainAlive of an alive registerable domain returned, and no FQDN thunk
\* of the instance was ever started
C11_Witness ==
  \E c \in 1..Len(calls) :
    /\ calls[c].api = "fqdn" /\ calls[c].pc = "done"
    /\ calls[c].key = "a.com"
    /\ calls[c].result = FqdnResult("a.com", TRUE, TRUE)
    /\ \A d \in CallIds : fqdnTask[d].st = "none"

\* C12: an isDomainAlive call whose apex result names a registerable domain
\* and is not alive completes, as soon as it resumes, with
\* {registerableDomain, registerableDomainAlive: false, alive: false}; it
\* starts no FQDN thunk, waits on none and issues no A and no AAAA query.
C12_DeadApexShortcut ==
  \A c \in 1..Len(calls) :
    LET p == apexTask[calls[c].apexP] IN
    (/\ calls[c].api = "fqdn"
     /\ calls[c].pc # "awaitApex"
     /\ p.st = "fulfilled" /\ p.value # Undefined
     /\ p.value.registerableDomain # Null
     /\ ~p.value.alive)
      => /\ calls[c].pc = "done"
         /\ calls[c].result = FqdnResult(p.value.registerableDomain, FALSE, FALSE)
         /\ calls[c].fqdnP = 0
         /\ fqdnTask[c].st = "none" /\ fqdnTask[c].dnsCalls = 0

\* isDomainAlive of a subdomain of a dead registerable domain returned
C12_Witness ==
  \E c \in 1..Len(calls) :
    /\ calls[c].api = "fqdn" /\ calls[c].pc = "done"
    /\ calls[c].key = "xn--tda.a.com"
    /\ calls[c].result = FqdnResult("a.com", FALSE, FALSE)

\* a dead phrase in the raw text of the node or of any node below it
RECURSIVE DeadAnywhere(_)
DeadAnywhere(node) ==
  \/ RawHasDeadLine(node.raw)
  \/ \E i \in 1..Len(node.kids) : DeadAnywhere(node.kids[i])

\* whois.whoisErrorCountAsAlive as the caller set it, true when unset
OptionOrTrue ==
  IF "whoisErrorCountAsAlive" \in DOMAIN options.whois
    THEN options.whois.whoisErrorCountAsAlive
    ELSE TRUE

\* C13: whenever the WHOIS client answered with a response tree that holds a
\* dead phrase in the raw text of any of its nodes, domainHasBeenRegistered
\* returns false; it returns true only for a tree free of dead phrases.
C13_DeadPhraseAnywhere ==
  \A c \in CallIds :
    LET t == apexTask[c] IN
    (t.registered # NoOutcome /\ t.whois.kind = "object" /\ DeadAnywhere(t.whois.obj))
      => t.registered = Return(FALSE)

\* C14: whenever the WHOIS client answered with a mapping without own keys,
\* domainHasBeenRegistered returns false and the apex thunk, whose NS probe
\* was not confirmed, returns alive: false.
C14_EmptyObjectUnregistered ==
  \A c \in CallIds :
    LET t == apexTask[c] IN
    (/\ t.registered # NoOutcome /\ t.whois.kind = "object"
     /\ t.whois.obj.raw = <<"absent">> /\ t.whois.obj.fields = 0
     /\ t.whois.obj.kids = <<>>)
      => /\ t.registered = Return(FALSE)
         /\ t.st = "returned"
         /\ t.value = ApexResult(t.rd, FALSE)
         /\ t.probes[1].outcome = "NOT_CONFIRMED"

\* the client answered {} after every NS attempt came back empty
C14_Witness ==
  \E c \in CallIds :
    /\ apexTask[c].st = "returned"
    /\ apexTask[c].whois = [kind |-> "object", obj |-> EmptyObject]
    /\ apexTask[c].probes[1].hits = 0
    /\ apexTask[c].value = ApexResult("a.com", FALSE)

\* C15: an apex thunk that ran the WHOIS fallback returns alive: true when
\* domainHasBeenRegistered returned true, alive: false when it returned
\* false, and whoisErrorCountAsAlive (true when unset) when it threw or when
\* the WHOIS client's failure was a bail or used up the retries.
C15_VerdictFollowsWhois ==
  \A c \in CallIds :
    LET t == apexTask[c]
        failed == \/ t.registered.kind = "throw"
                  \/ /\ t.whois.kind = "error"
                     /\ ClassifyWhoisError(t.whois.msg) \in {"bail", "throw"}
    IN
    (t.st = "returned" /\ t.registered # NoOutcome)
      => /\ t.probes[1].outcome = "NOT_CONFIRMED"
         /\ failed => t.value = ApexResult(t.rd, OptionOrTrue)
         /\ (~failed /\ t.registered = Return(TRUE)) => t.value = ApexResult(t.rd, TRUE)
         /\ (~failed /\ t.registered = Return(FALSE)) => t.value = ApexResult(t.rd, FALSE)

\* the WHOIS client failed with a bail error under whoisErrorCountAsAlive:
\* false, and the apex is reported dead
C15_Witness ==
  \E c \in CallIds :
    /\ apexTask[c].st = "returned"
    /\ apexTask[c].whois.kind = "error"
    /\ ClassifyWhoisError(apexTask[c].whois.msg) = "bail"
    /\ "whoisErrorCountAsAlive" \in DOMAIN options.whois
    /\ ~options.whois.whoisErrorCountAsAlive
    /\ apexTask[c].value = ApexResult("a.com", FALSE)

\* C16: after the WHOIS client failed with `TLD for "X" not supported`,
\* domainHasBeenRegistered returns true; after `No WHOIS data found` it
\* returns false; and after either error, or after `Invalid TLD "X"` or
\* `TLD "X" not found`, the client is not invoked again: the thunk does not
\* wait on another invocation and no retry is left scheduled.
C16_NoRetryAfterClassifiedError ==
  \A c \in CallIds :
    LET t == apexTask[c]
        how == ClassifyWhoisError(t.whois.msg)
    IN
    (t.whois.kind = "error" /\ how # "throw")
      => /\ t.st # "whois"
         /\ whoisOp[c].st # "pending"
         /\ how = "whoiserTLDNotSupportedSymbol" => t.registered = Return(TRUE)
         /\ how = "whoiserNoWhoisSymbol" => t.registered = Return(FALSE)

\* C17: the host the WHOIS client is given for a TLD is the entry of
\* whois.customWhoisServersMapping when it has one for the TLD, the built-in
\* entry otherwise, and no hint when neither has one.
C17_CustomMappingWins ==
  \A c \in CallIds :
    LET t == apexTask[c]
        custom == IF "customWhoisServersMapping" \in DOMAIN options.whois
                    THEN options.whois.customWhoisServersMapping
                    ELSE <<>>
    IN
    t.st = "whois" =>
      t.host = IF t.tld \in DOMAIN custom THEN custom[t.tld] ELSE cacheTldWhoisServer(t.tld)

\* C19: domainHasBeenRegistered throws WhoisQueryError exactly when the WHOIS
\* client failed with `Invalid TLD "X"` or `TLD "X" not found`; after every
\* other outcome of the client it returns a boolean.
C19_BailPropagates ==
  \A c \in CallIds :
    LET t == apexTask[c] IN
    (t.registered # NoOutcome /\ t.whois # NoOutcome)
      => IF t.whois.kind = "error" /\ ClassifyWhoisError(t.whois.msg) = "bail"
           THEN t.registered = Throw("WhoisQueryError")
           ELSE t.registered.kind = "return" /\ t.registered.value \in BOOLEAN

\* C20: the WHOIS client is invoked at most retries + 1 times by one
\* asyncRetry operation; when its last invocation failed with an unclassified
\* error, every one of the retries + 1 invocations was made and
\* domainHasBeenRegistered returns whoisErrorCountAsAlive (true when unset)
\* instead of throwing; when an invocation succeeded, after failures or not,
\* domainHasBeenRegistered returns the classification of that response.
C20_TransientRetriesBounded ==
  \A c \in CallIds :
    LET t == apexTask[c] IN
    /\ t.whoisCalls <= options.whoisRetries + 1
    /\ whoisOp[c].whoisCalls <= options.whoisRetries + 1
    /\ (t.registered # NoOutcome /\ t.whois.kind = "error"
          /\ ClassifyWhoisError(t.whois.msg) = "throw")
         => /\ t.whoisCalls = options.whoisRetries + 1
            /\ t.registered = Return(OptionOrTrue)
    /\ (t.registered # NoOutcome /\ t.whois.kind = "object")
         => t.registered = Return(walkWhois(t.whois.obj))

\* the retries were used up on unclassified errors under
\* whoisErrorCountAsAlive: false
C20_Witness ==
  \E c \in CallIds :
    /\ apexTask[c].st = "returned"
    /\ apexTask[c].whois = [kind |-> "error", msg |-> "connect ETIMEDOUT"]
    /\ apexTask[c].whoisCalls = options.whoisRetries + 1
    /\ apexTask[c].whoisCalls > 1
    /\ ~OptionOrTrue
    /\ apexTask[c].value = ApexResult("a.com", FALSE)

\* C18: a checker never finds in its caches or in its mutex maps what
\* another checker put there: an apex call served from the cache, or waiting
\* on the promise of another call, follows a call of the same checker that
\* computed the entry, or started the thunk, for that key.
C18_CheckersIndependent ==
  \A c \in 1..Len(calls) :
    /\ (apexTask[c].st \in {"returned", "fulfilled"} /\ ~apexTask[c].computed)
         => \E d \in 1..Len(calls) :
              /\ calls[d].inst = calls[c].inst
              /\ apexTask[d].key = apexTask[c].key
              /\ apexTask[d].computed
    /\ (fqdnTask[c].st \in {"returned", "fulfilled"} /\ ~fqdnTask[c].computed)
         => \E d \in 1..Len(calls) :
              /\ calls[d].inst = calls[c].inst
              /\ fqdnTask[d].key = fqdnTask[c].key
              /\ fqdnTask[d].computed
    /\ calls[calls[c].apexP].inst = calls[c].inst
    /\ calls[c].fqdnP # 0 => calls[calls[c].fqdnP].inst = calls[c].inst

\* C21: in each mutex map the entry of a key is there exactly while the
\* thunk it was made for is in flight (started, its promise not settled,
\* whether it is going to fulfil or to reject); the calls that are over
\* hold what the promise they waited on settled with, value or error; and
\* a call that enters a mutex either joins a thunk that is in flight or
\* starts a thunk of its own, so a thunk that failed is never joined later.
C21_EntryWhileRunning ==
  /\ [](/\ \A i \in Checkers, k \in Keys :
            /\ apexLock[i][k] # 0 =>
                 /\ apexLock[i][k] <= Len(calls)
                 /\ calls[apexLock[i][k]].inst = i
                 /\ apexTask[apexLock[i][k]].key = k
                 /\ InFlight(apexTask[apexLock[i][k]])
            /\ fqdnLock[i][k] # 0 =>
                 /\ fqdnLock[i][k] <= Len(calls)
                 /\ calls[fqdnLock[i][k]].inst = i
                 /\ fqdnTask[fqdnLock[i][k]].key = k
                 /\ InFlight(fqdnTask[fqdnLock[i][k]])
        /\ \A c \in 1..Len(calls) :
            /\ InFlight(apexTask[c]) => apexLock[calls[c].inst][apexTask[c].key] = c
            /\ InFlight(fqdnTask[c]) => fqdnLock[calls[c].inst][fqdnTask[c].key] = c
            /\ (calls[c].pc \in {"done", "failed"} /\ calls[c].fqdnP # 0) =>
                 /\ calls[c].result = fqdnTask[calls[c].fqdnP].value
                 /\ (calls[c].pc = "done") <=> (fqdnTask[calls[c].fqdnP].st = "fulfilled")
            /\ (calls[c].pc \in {"done", "failed"} /\ calls[c].api = "apex") =>
                 /\ calls[c].result = apexTask[calls[c].apexP].value
                 /\ (calls[c].pc = "done") <=> (apexTask[calls[c].apexP].st = "fulfilled"))
  /\ [][\A c \in 1..Len(calls') :
          IF c > Len(calls)
            THEN \/ calls'[c].apexP = c /\ apexTask'[c].st # "none"
                 \/ calls'[c].apexP # c /\ InFlight(apexTask[calls'[c].apexP])
            ELSE (calls[c].fqdnP = 0 /\ calls'[c].fqdnP # 0) =>
                   \/ calls'[c].fqdnP = c /\ fqdnTask'[c].st # "none"
                   \/ calls'[c].fqdnP # c /\ InFlight(fqdnTask[calls'[c].fqdnP])]_vars

\* an FQDN thunk failed, its entry is gone, and a later call with the same
\* key runs a thunk of its own
C21_Witness ==
  \E c1, c2 \in 1..Len(calls) :
    /\ c1 < c2
    /\ calls[c1].inst = calls[c2].inst
    /\ fqdnTask[c1].st = "rejected"
    /\ calls[c1].pc = "failed"
    /\ fqdnTask[c2].key = fqdnTask[c1].key
    /\ fqdnTask[c2].st = "aaaa"
    /\ fqdnLock[calls[c2].inst][fqdnTask[c2].key] = c2

\* C26: the apex mutex and the apex cache are keyed by the normalized input:
\* a call waits only on an apex thunk of its own key, an apex thunk is
\* served from the cache only by the entry of its own key, and every entry
\* of the apex cache was computed by a thunk of that very key, so two
\* inputs with one registerable domain are computed and stored separately.
C26_ApexKeyedByInput ==
  /\ \A c \in 1..Len(calls) :
       /\ apexTask[calls[c].apexP].key = calls[c].key
       /\ (apexTask[c].st \in {"returned", "fulfilled"} /\ ~apexTask[c].computed)
            => /\ apexTask[c].value # Undefined
               /\ \E d \in 1..Len(calls) :
                    /\ d # c /\ apexTask[d].key = apexTask[c].key
                    /\ apexTask[d].st = "fulfilled" /\ apexTask[d].computed
  /\ \A k \in Keys :
       apexCache[1][k] # NoEntry =>
         \E d \in 1..Len(calls) :
           /\ apexTask[d].key = k
           /\ apexTask[d].st = "fulfilled" /\ apexTask[d].computed
           /\ apexTask[d].value = apexCache[1][k]

\* "a.com" and "xn--tda.a.com" were each computed by a thunk of their own,
\* and the apex cache holds an entry for each
C26_Witness ==
  \E c1, c2 \in 1..Len(calls) :
    /\ apexTask[c1].key = "a.com" /\ apexTask[c2].key = "xn--tda.a.com"
    /\ apexTask[c1].st = "fulfilled" /\ apexTask[c1].computed
    /\ apexTask[c2].st = "fulfilled" /\ apexTask[c2].computed
    /\ apexCache[1]["a.com"] # NoEntry
    /\ apexCache[1]["xn--tda.a.com"] # NoEntry

\* C27: in each cache of a checker, set is invoked at most once per key (at
\* most one thunk per key ever computes and writes), an entry once written
\* never changes and is never removed, and a thunk that threw writes
\* nothing: no entry is an error.
C27_WriteOnce ==
  /\ [](/\ \A c1, c2 \in 1..Len(calls) :
            (c1 # c2 /\ calls[c1].inst = calls[c2].inst) =>
              /\ ~(/\ apexTask[c1].st = "fulfilled" /\ apexTask[c1].computed
                   /\ apexTask[c2].st = "fulfilled" /\ apexTask[c2].computed
                   /\ apexTask[c1].key = apexTask[c2].key)
              /\ ~(/\ fqdnTask[c1].st = "fulfilled" /\ fqdnTask[c1].computed
                   /\ fqdnTask[c2].st = "fulfilled" /\ fqdnTask[c2].computed
                   /\ fqdnTask[c1].key = fqdnTask[c2].key)
        /\ \A i \in Checkers, k \in Keys :
            /\ apexCache[i][k] # NoEntry => "registerableDomain" \in DOMAIN apexCache[i][k]
            /\ fqdnCache[i][k] # NoEntry => "registerableDomain" \in DOMAIN fqdnCache[i][k])
  /\ [][\A i \in Checkers, k \in Keys :
          /\ apexCache[i][k] # NoEntry => apexCache'[i][k] = apexCache[i][k]
          /\ fqdnCache[i][k] # NoEntry => fqdnCache'[i][k] = fqdnCache[i][k]]_vars

\* an FQDN thunk threw and left no entry, and a later thunk of the same key
\* computed a result and wrote it
C27_Witness ==
  \E c1, c2 \in 1..Len(calls) :
    /\ c1 # c2
    /\ fqdnTask[c1].st = "rejected"
    /\ fqdnTask[c2].st = "fulfilled" /\ fqdnTask[c2].computed
    /\ fqdnTask[c2].key = fqdnTask[c1].key
    /\ fqdnCache[calls[c2].inst][fqdnTask[c2].key] = fqdnTask[c2].value

\* C29: every entry of the FQDN cache names a registerable domain that is
\* not null and not the key it is stored under, and has
\* registerableDomainAlive true; the results for a null apex, a dead apex or
\* an input equal to its apex are never in the FQDN cache.
C29_FqdnCacheEntries ==
  \A i \in Checkers, k \in Keys :
    fqdnCache[i][k] # NoEntry =>
      /\ fqdnCache[i][k].registerableDomain # Null
      /\ fqdnCache[i][k].registerableDomain # k
      /\ fqdnCache[i][k].registerableDomain = getDomain(k)
      /\ fqdnCache[i][k].registerableDomainAlive

\* the FQDN cache holds the result of a probed subdomain, while calls for a
\* null apex and for an input equal to its apex returned
C29_Witness ==
  /\ fqdnCache[1]["xn--tda.a.com"] # NoEntry
  /\ fqdnCache[1]["a.com"] = NoEntry
  /\ \E c \in 1..Len(calls) :
       /\ calls[c].api = "fqdn" /\ calls[c].pc = "done"
       /\ calls[c].key = "a.com" /\ calls[c].result.alive

\* the node has at least one own key: __raw, a scalar or array field, or a
\* nested node
HasOwnKey(node) ==
  node.raw[1] # "absent" \/ node.fields # 0 \/ Len(node.kids) # 0

Outstanding(t) == t.dnsCalls - t.dnsSettled

\* C22: within one call at most one resolver invocation is outstanding at
\* any time, and one is exactly while a probe awaits it; an attempt ends,
\* and the next one starts, only in the step in which every invocation made
\* so far has settled; and while the AAAA probe runs the A probe is over,
\* NOT_CONFIRMED, with all of its attempts made.
C22_OneQueryAtATime ==
  /\ [](\A c \in CallIds :
          /\ Outstanding(apexTask[c]) \in {0, 1}
          /\ Outstanding(fqdnTask[c]) \in {0, 1}
          /\ Outstanding(apexTask[c]) + Outstanding(fqdnTask[c]) <= 1
          /\ Outstanding(apexTask[c]) = 1 <=> apexTask[c].st = "ns"
          /\ Outstanding(fqdnTask[c]) = 1 <=> fqdnTask[c].st \in {"a", "aaaa"}
          /\ fqdnTask[c].st = "aaaa" =>
               /\ Len(fqdnTask[c].probes) = 1
               /\ fqdnTask[c].probes[1].type = "A"
               /\ fqdnTask[c].probes[1].outcome = "NOT_CONFIRMED"
               /\ fqdnTask[c].probes[1].attempts = options.maxAttempts)
  /\ [][\A c \in CallIds :
          /\ (apexTask[c].st = "ns" /\ apexTask'[c].attempts > apexTask[c].attempts)
               => apexTask'[c].dnsSettled = apexTask[c].dnsCalls
          /\ (fqdnTask[c].st \in {"a", "aaaa"} /\ fqdnTask'[c].st \in {"a", "aaaa"}
               /\ fqdnTask'[c].dnsCalls > fqdnTask[c].dnsCalls)
               => fqdnTask'[c].dnsSettled = fqdnTask[c].dnsCalls]_vars

\* the AAAA probe awaits its second attempt after the A probe made all of
\* its attempts, one of them retried
C22_Witness ==
  \E c \in CallIds :
    /\ fqdnTask[c].st = "aaaa"
    /\ fqdnTask[c].attempts = 1
    /\ fqdnTask[c].probes[1].attempts = Len(DnsServers)
    /\ fqdnTask[c].dnsCalls > 2 * Len(DnsServers)
    /\ Outstanding(fqdnTask[c]) = 1

\* a thunk suspended on a resolver invocation
Probing(t) == t.st \in {"ns", "a", "aaaa"}

\* C23: in every probe the attempts made never exceed maxAttempts as given
\* nor the number of servers, no position of the shuffled list gives its
\* resolver to two attempts of one probe, an attempt invokes its resolver at
\* most retryCount + 1 times, and an attempt is under way only while the
\* confirmations are below the threshold.
C23_AttemptsBounded ==
  \A t \in Tasks :
    /\ t.attempts <= options._maxAttempts
    /\ t.attempts <= Len(options.dnsServers)
    /\ \A i \in 1..Len(t.probes) :
         /\ t.probes[i].attempts <= options._maxAttempts
         /\ t.probes[i].attempts <= Len(options.dnsServers)
    /\ \A i, j \in 1..Len(t.used) : t.used[i] = t.used[j] => i = j
    /\ Len(t.used) <= options._maxAttempts
    /\ Len(t.used) <= Len(options.dnsServers)
    /\ Probing(t) =>
         /\ Len(t.used) = t.attempts + 1
         /\ t.used[Len(t.used)] = t.attempts + 1
         /\ t.tries <= options.retries
         /\ t.confirmations < options.maxConfirmations
    /\ t.dnsCalls <= (options.retries + 1) * 2 * Len(options.dnsServers)

\* maxAttempts was given larger than the number of servers, and the NS probe
\* is at its last attempt, retried, with every server used once
C23_Witness ==
  \E c \in CallIds :
    /\ options._maxAttempts > Len(options.dnsServers)
    /\ apexTask[c].st = "ns"
    /\ Len(apexTask[c].used) = Len(options.dnsServers)
    /\ apexTask[c].tries = options.retries

\* C24: the AAAA probe of an FQDN thunk runs on a list the thunk shuffled
\* afresh: by the time the AAAA probe awaits a resolver the thunk has called
\* shuffleArray twice, once for each of its probes.
C24_AaaaShufflesAfresh ==
  \A c \in CallIds :
    fqdnTask[c].st = "aaaa" => fqdnTask[c].shuffles = 2

\* C25: the TypeError of an unknown DNS scheme is thrown by the factory and
\* by nothing else: no call of isRegisterableDomainAlive or isDomainAlive
\* ever fails with it, and no thunk ever throws it.
C25_UnknownSchemeFailsFactory ==
  /\ \A c \in 1..Len(calls) :
       ~(calls[c].pc = "failed" /\ calls[c].result = UnsupportedProtocol)
  /\ \A t \in Tasks :
       ~(t.st \in {"threw", "rejected"} /\ t.value = UnsupportedProtocol)

====
